---- MODULE Spec2Model ----
(***************************************************************************)
(* Wallet activity monitoring: Listen (WatchSet facade, significance       *)
(* classification, periodic cleanup), TransactionMonitor (subscription     *)
(* registry, notification normalisation) and WalletUtils (validity check). *)
(*                                                                         *)
(* Every async method is cut at its suspension points (an await on a chain *)
(* call); the code between two suspension points is one action.  Awaits on *)
(* values that are already settled only yield to the microtask queue, so   *)
(* no chain callback can run there, and they are not cut.                  *)
(***************************************************************************)
EXTENDS Integers, Sequences, FiniteSets, TLC

\* ------------------------------------------------------------------ bounds
MaxTicks == 2        \* clock advances at most this many times
MaxHandleId == 4     \* subscription ids the chain client hands out
MaxTasks == 1        \* async calls suspended at the same time
MaxNotes == 1        \* raw chain notifications delivered
MaxBusTasks == 3     \* the same two bounds when only the notifications of
MaxBusNotes == 3     \* one monitored address are followed (SpecBus)
MaxReapTasks == 2    \* unsubscribing calls suspended at the same time (SpecReap)
MaxScanTasks == 1    \* token-holder scans suspended at the same time (SpecScan)
MaxRaceTasks == 2    \* async calls suspended at the same time (SpecRace)
MaxRaceNotes == 1    \* log notifications delivered (SpecRace)

\* --------------------------------------------------------------- constants
LAMPORTS_PER_SOL == 1000000000
InactiveThreshold == 24 * 60 * 60 * 1000       \* ms
ClockStep == InactiveThreshold                 \* ms between two clock readings

TOKEN_PROGRAM_ID == "TokenkegQfeZyiNwAJbNbGKPFXCWuBvf9Ss623VQ5DA"
SYSTEM_PROGRAM_ID == "11111111111111111111111111111111"
OTHER_PROGRAM_ID == "ComputeBudget111111111111111111111111111111"

\* Addresses handed to the API.  MalformedKey is no base58 public key:
\* new PublicKey(MalformedKey) throws.
MalformedKey == "not-a-key"
Wallets == {"A", "B"}
Addresses == Wallets \cup {MalformedKey}

PublicKeyOk(address) == address # MalformedKey

\* ------------------------------------------------------- chain-side inputs
\* What the chain answers to getAccountInfo (null, or an account with its
\* owner) and to getBalance (lamports): no account, a system-owned account with
\* 0.02 SOL, one with exactly 0.01 SOL, and a token-program-owned account
\* with 0.02 SOL.
ChainAccounts ==
    { [exists |-> FALSE, owner |-> "", balance |-> 0],
      [exists |-> TRUE, owner |-> SYSTEM_PROGRAM_ID, balance |-> 20000000],
      [exists |-> TRUE, owner |-> SYSTEM_PROGRAM_ID, balance |-> 10000000],
      [exists |-> TRUE, owner |-> TOKEN_PROGRAM_ID, balance |-> 20000000] }

\* Outcome of the two subscription calls of startMonitoring.
OpenOutcomes == {"ok", "acctThrows", "logsThrows"}

\* accountInfo.lamports carried by an account-change notification:
\* 0.5 SOL, 1.0 SOL, one lamport more, and 2.0 SOL.
NotifiedLamports == {500000000, 1000000000, 1000000001, 2000000000}

\* Parsed transactions connection.getParsedTransaction can return.
TokenTwoSol ==
    [hasMeta |-> TRUE, hasTransaction |-> TRUE,
     instructions |-> <<SYSTEM_PROGRAM_ID, TOKEN_PROGRAM_ID>>,
     preBalances |-> <<2000000000, 0>>,
     postBalances |-> <<1000000000, 1000000001>>]
SystemTwoSol ==
    [hasMeta |-> TRUE, hasTransaction |-> TRUE,
     instructions |-> <<SYSTEM_PROGRAM_ID>>,
     preBalances |-> <<2000000000, 0>>,
     postBalances |-> <<1000000000, 1000000001>>]
TokenOneSol ==
    [hasMeta |-> TRUE, hasTransaction |-> TRUE,
     instructions |-> <<TOKEN_PROGRAM_ID>>,
     preBalances |-> <<1000000000, 0>>,
     postBalances |-> <<500000000, 500000000>>]
TokenNoMeta ==
    [hasMeta |-> FALSE, hasTransaction |-> TRUE,
     instructions |-> <<OTHER_PROGRAM_ID, TOKEN_PROGRAM_ID>>,
     preBalances |-> <<>>, postBalances |-> <<>>]
NoBody ==
    [hasMeta |-> TRUE, hasTransaction |-> FALSE,
     instructions |-> <<>>, preBalances |-> <<>>, postBalances |-> <<>>]
\* Four accounts whose balances change by 1 SOL in all: two senders lose
\* 0.184502589 and 0.315499911 SOL (5000 lamports of it the fee), two
\* receivers gain 0.348736245 and 0.151261255 SOL.
TokenOneSolFourWays ==
    [hasMeta |-> TRUE, hasTransaction |-> TRUE,
     instructions |-> <<TOKEN_PROGRAM_ID>>,
     preBalances |-> <<200000000, 0, 400000000, 0>>,
     postBalances |-> <<15497411, 348736245, 84500089, 151261255>>]
ParsedTransactions ==
    {TokenTwoSol, SystemTwoSol, TokenOneSol, TokenOneSolFourWays, TokenNoMeta,
     NoBody}

\* A fetch throws, returns null, or returns a parsed transaction.
Thrown == [hasMeta |-> FALSE, hasTransaction |-> FALSE, instructions |-> <<"throw">>,
           preBalances |-> <<>>, postBalances |-> <<>>]
Null == [hasMeta |-> FALSE, hasTransaction |-> FALSE, instructions |-> <<"null">>,
         preBalances |-> <<>>, postBalances |-> <<>>]
FetchOutcomes == {Thrown, Null} \cup ParsedTransactions

\* ------------------------------------------------------------------- state
VARIABLES
    now,               \* Date.now()
    wallets,           \* Listen.wallets
    decisions,         \* blockchain.decisions: the Set it was handed
    monitoredWallets,  \* TransactionMonitor.monitoredWallets, insertion order
    subscriptions,     \* TransactionMonitor.subscriptions (Map)
    lastActivity,      \* TransactionMonitor.lastActivity (Map)
    handles,           \* subscriptions live in the chain client
    nextId,            \* last subscription id the chain client handed out
    tasks,             \* async calls suspended on a chain call
    nextNote,          \* raw notifications delivered so far
    activity,          \* 'walletActivity' events emitted, in order
    significant,       \* 'significantActivity' events emitted, in order
    ret                \* what the last step returned to its caller

vars == <<now, wallets, decisions, monitoredWallets, subscriptions, lastActivity,
          handles, nextId, tasks, nextNote, activity, significant, ret>>

monitorVars == <<monitoredWallets, subscriptions, lastActivity>>
chainVars == <<handles, nextId>>
busVars == <<nextNote, activity, significant>>

\* --------------------------------------------------------------- utilities
EmptyMap == [k \in {} |-> 0]
Undefined == -1                     \* Map.get of a missing key

MapGet(m, k) == IF k \in DOMAIN m THEN m[k] ELSE Undefined
MapSet(m, k, v) == [x \in DOMAIN m \cup {k} |-> IF x = k THEN v ELSE m[x]]
MapDelete(m, k) == [x \in DOMAIN m \ {k} |-> m[x]]

Range(s) == {s[i] : i \in DOMAIN s}
IndexOf(s, x) == IF x \in Range(s) THEN CHOOSE i \in DOMAIN s : s[i] = x ELSE 0
SetAdd(s, x) == IF x \in Range(s) THEN s ELSE Append(s, x)
SetDelete(s, x) == SelectSeq(s, LAMBDA y : y # x)
RemoveAt(s, i) == [j \in 1..(Len(s) - 1) |-> IF j < i THEN s[j] ELSE s[j + 1]]

Abs(x) == IF x < 0 THEN -x ELSE x

AccountHandle(id, w) == [id |-> id, wallet |-> w, kind |-> "account"]
LogsHandle(id, w) == [id |-> id, wallet |-> w, kind |-> "logs"]

\* An async call suspended on a chain call.
NewTask ==
    [kind |-> "", wallet |-> "", pc |-> "", account |-> 0, signature |-> 0,
     monitored |-> FALSE, pos |-> 0, stale |-> {}, added |-> {}, note |-> 0,
     before |-> {}, started |-> 0, tried |-> {}, unreleased |-> {},
     total |-> 0, holders |-> <<>>, owners |-> {}, others |-> {}]

\* The suspended calls are an unordered collection; they are kept in one fixed
\* order so that the same collection is the same state.
TaskRank(t) ==
    (CASE t.kind = "removeWallet" -> 0 [] t.kind = "cleanup" -> 1 [] OTHER -> 2) * 1000
    + (CASE t.wallet = "A" -> 0 [] t.wallet = "B" -> 1 [] OTHER -> 2) * 100
    + (CASE t.pc = "relAcct" -> 0 [] t.pc = "relLogs" -> 1 [] t.pc = "signatures" -> 2
         [] t.pc = "parsed" -> 3 [] OTHER -> 4) * 10
    + t.note
Canon(ts) == SortSeq(ts, LAMBDA a, b : TaskRank(a) < TaskRank(b))

NoEvent ==
    [note |-> 0, type |-> "", wallet |-> "", lamports |-> 0,
     transactionType |-> ""]

\* The event logs keep the raw notification each emitted event came from.
NoteOf(event) == event.note

\* What a step hands back to its caller; NoRet when nothing returned.
NoRet ==
    [op |-> "none", wallet |-> "", result |-> FALSE, valid |-> FALSE,
     open |-> "", repeat |-> FALSE, monitored |-> FALSE, account |-> 0,
     signature |-> 0, failed |-> "", fetch |-> Null, verdict |-> FALSE,
     note |-> 0, lamports |-> 0, stale |-> {}, added |-> {},
     transactionType |-> "", before |-> {}, started |-> 0, tried |-> {},
     unreleased |-> {}, considered |-> 0, total |-> 0, holders |-> <<>>,
     owners |-> {}, others |-> {}]

\* -------------------------------------------------------------- JS numbers
\* A JavaScript number is an IEEE 754 double: 53 significant bits, results
\* rounded to nearest, ties to even.  The doubles met here are non-negative,
\* below 8 and multiples of 2^-FracBits; each is written as its bits, most
\* significant first, IntBits of them before the point and FracBits after it.
\* Lamport amounts themselves are integers below 2^53 and exact.
Precision == 53
IntBits == 3
FracBits == 87
Width == IntBits + FracBits

Zeros(n) == [i \in 1..n |-> 0]
Zero == Zeros(Width)
One == Zeros(IntBits - 1) \o <<1>> \o Zeros(FracBits)

\* The place of the leading one; 0 for zero.
FirstOne(bits) ==
    IF \A i \in 1..Width : bits[i] = 0 THEN 0
    ELSE CHOOSE i \in 1..Width : bits[i] = 1 /\ \A j \in 1..(i - 1) : bits[j] = 0

\* bits plus one unit in place k: the carry runs up to the nearest zero.
AddOneAt(bits, k) ==
    LET j == CHOOSE j \in 1..k :
                 bits[j] = 0 /\ \A m \in (j + 1)..k : bits[m] = 1
    IN SubSeq(bits, 1, j - 1) \o <<1>> \o Zeros(k - j)
           \o SubSeq(bits, k + 1, Width)

\* The double nearest to the value bits (plus something below the last place
\* when inexact).
RoundToDouble(bits, inexact) ==
    LET first == FirstOne(bits)
        last == first + Precision - 1
    IN IF first = 0 \/ last >= Width THEN bits
       ELSE LET half == bits[last + 1] = 1
                more == inexact \/ \E i \in (last + 2)..Width : bits[i] = 1
                kept == SubSeq(bits, 1, last) \o Zeros(Width - last)
            IN IF half /\ (more \/ bits[last] = 1) THEN AddOneAt(kept, last)
               ELSE kept

\* Long division of r by LAMPORTS_PER_SOL, r below LAMPORTS_PER_SOL: what is
\* left after k binary digits after the point, and those k digits.  Each half
\* is worked out before the next one starts from what it left.
RECURSIVE Remainder(_, _)
Remainder(r, k) ==
    IF k = 0 THEN r
    ELSE IF k = 1 THEN (2 * r) % LAMPORTS_PER_SOL
    ELSE LET left == Remainder(r, k \div 2)
         IN IF left >= 0 THEN Remainder(left, k - k \div 2) ELSE left

RECURSIVE Digits(_, _)
Digits(r, k) ==
    IF k = 0 THEN <<>>
    ELSE IF k = 1 THEN <<(2 * r) \div LAMPORTS_PER_SOL>>
    ELSE LET left == Remainder(r, k \div 2)
         IN IF left >= 0
            THEN Digits(r, k \div 2) \o Digits(left, k - k \div 2)
            ELSE <<>>

\* lamports / LAMPORTS_PER_SOL (also written lamports / 1e9), lamports >= 0.
ToSol(lamports) ==
    LET q == lamports \div LAMPORTS_PER_SOL
        r == lamports % LAMPORTS_PER_SOL
        int == [i \in 1..IntBits |-> (q \div 2 ^ (IntBits - i)) % 2]
    IN RoundToDouble(int \o Digits(r, FracBits), Remainder(r, FracBits) # 0)

\* The carry into place i of a + b: some place to the right generates one and
\* every place between passes it on.
CarryInto(a, b, i) ==
    \E j \in (i + 1)..Width :
        /\ a[j] + b[j] = 2
        /\ \A m \in (i + 1)..(j - 1) : a[m] + b[m] = 1

\* a + b
Plus(a, b) ==
    RoundToDouble(
        SubSeq([i \in 1..Width |->
                   (a[i] + b[i] + IF CarryInto(a, b, i) THEN 1 ELSE 0) % 2],
               1, Width),
        FALSE)

\* a > b
Greater(a, b) ==
    \E i \in 1..Width : a[i] > b[i] /\ \A j \in 1..(i - 1) : a[j] = b[j]

\* ------------------------------------------------------------- WalletUtils
\* wallet-utils.js requires PublicKey and LAMPORTS_PER_SOL from web3.js and
\* nothing else: the identifier SystemProgram that isValidWallet reads is
\* bound nowhere, so evaluating it throws a ReferenceError.
SystemProgramResolves == FALSE

MinBalanceLamports == LAMPORTS_PER_SOL \div 100     \* 0.01 * LAMPORTS_PER_SOL

\* The address rule as the code writes it down: an existing account owned by
\* the system program whose balance is above 0.01 SOL.
WalletRule(address, info, balance) ==
    /\ PublicKeyOk(address)
    /\ info.exists
    /\ info.owner = SYSTEM_PROGRAM_ID
    /\ balance > MinBalanceLamports

\* isValidWallet without its owner comparison.
isValidWallet_NoOwnerCheck(address, info, balance) ==
    IF ~PublicKeyOk(address) THEN FALSE
    ELSE IF ~info.exists THEN FALSE
    ELSE balance > MinBalanceLamports

isValidWallet(address, info, balance) ==
    IF ~PublicKeyOk(address) THEN FALSE            \* new PublicKey throws -> catch
    ELSE IF ~info.exists THEN FALSE                \* if (!accountInfo) return false
    ELSE IF ~SystemProgramResolves THEN FALSE      \* ReferenceError -> catch
    ELSE IF info.owner = SYSTEM_PROGRAM_ID THEN balance > MinBalanceLamports
    ELSE FALSE

\* The loop of calculateTransactionValue from index i on, value being the sum
\* so far: every change is divided by LAMPORTS_PER_SOL, then added.
RECURSIVE SumAbsChange(_, _, _, _)
SumAbsChange(pre, post, i, value) ==
    IF i > Len(pre) THEN value
    ELSE SumAbsChange(pre, post, i + 1,
                      Plus(value, ToSol(Abs(post[i] - pre[i]))))

\* In SOL, as a double.
calculateTransactionValue(tx) ==
    IF ~tx.hasMeta THEN Zero
    ELSE SumAbsChange(tx.preBalances, tx.postBalances, 1, Zero)

\* ------------------------------------------------------ TransactionMonitor
IsActiveAt(la, t, w) ==
    LET lastActivityTime == MapGet(la, w) IN
    IF lastActivityTime = Undefined \/ lastActivityTime = 0 THEN FALSE
    ELSE t - lastActivityTime < InactiveThreshold

isWalletActive(w) == IsActiveAt(lastActivity, now, w)

getMonitoredWallets == monitoredWallets

ActiveOf(mw, la, t) == SelectSeq(mw, LAMBDA w : IsActiveAt(la, t, w))

getActiveWallets == ActiveOf(monitoredWallets, lastActivity, now)

getTransactionType(tx) ==
    IF ~tx.hasMeta \/ ~tx.hasTransaction THEN "unknown"
    ELSE IF Len(tx.instructions) = 0 THEN "unknown"
    ELSE IF tx.instructions[1] = TOKEN_PROGRAM_ID THEN "token_transaction"
    ELSE IF tx.instructions[1] = SYSTEM_PROGRAM_ID THEN "system_transaction"
    ELSE "other"

\* startMonitoring without its lastActivity.set.
startMonitoring_NoLastActivity(w, open) ==
    IF ~PublicKeyOk(w) THEN
        UNCHANGED <<monitorVars, chainVars>>
    ELSE IF w \in Range(monitoredWallets) THEN
        UNCHANGED <<monitorVars, chainVars>>
    ELSE IF open = "acctThrows" THEN
        UNCHANGED <<monitorVars, chainVars>>
    ELSE IF open = "logsThrows" THEN
        /\ nextId' = nextId + 1
        /\ handles' = handles \cup {AccountHandle(nextId + 1, w)}
        /\ UNCHANGED monitorVars
    ELSE
        /\ nextId' = nextId + 2
        /\ handles' = handles \cup {AccountHandle(nextId + 1, w),
                                    LogsHandle(nextId + 2, w)}
        /\ subscriptions' = MapSet(subscriptions, w,
               [account |-> nextId + 1, signature |-> nextId + 2])
        /\ monitoredWallets' = SetAdd(monitoredWallets, w)
        /\ lastActivity' = lastActivity

\* The synchronous body of startMonitoring; `open` is what the chain client
\* does with the two subscription calls.
startMonitoring(w, open) ==
    IF ~PublicKeyOk(w) THEN
        UNCHANGED <<monitorVars, chainVars>>        \* constructor throws -> catch
    ELSE IF w \in Range(monitoredWallets) THEN
        UNCHANGED <<monitorVars, chainVars>>        \* already monitoring
    ELSE IF open = "acctThrows" THEN
        UNCHANGED <<monitorVars, chainVars>>        \* catch, nothing opened
    ELSE IF open = "logsThrows" THEN
        /\ nextId' = nextId + 1
        /\ handles' = handles \cup {AccountHandle(nextId + 1, w)}
        /\ UNCHANGED monitorVars                    \* catch, after one open
    ELSE
        /\ nextId' = nextId + 2
        /\ handles' = handles \cup {AccountHandle(nextId + 1, w),
                                    LogsHandle(nextId + 2, w)}
        /\ subscriptions' = MapSet(subscriptions, w,
               [account |-> nextId + 1, signature |-> nextId + 2])
        /\ monitoredWallets' = SetAdd(monitoredWallets, w)
        /\ lastActivity' = MapSet(lastActivity, w, now)

\* ------------------------------------------------------------------ Listen
\* EventEmitter.emit with two listeners registered for the event.
emit_Twice(log, note) == Append(Append(log, note), note)

\* EventEmitter.emit: the one listener registered for the event is called once.
emit(log, note) == Append(log, note)

\* handleWalletActivity emitting whatever the verdict is.
handleWalletActivity_EmitAll(note, isSignificant) == emit(significant, note)

\* The end of handleWalletActivity, once the verdict is known.
handleWalletActivity(note, isSignificant) ==
    IF isSignificant THEN emit(significant, note) ELSE significant

\* isSignificantAccountChange with >= for >.
isSignificantAccountChange_AtLeast(lamports) ==
    ~Greater(One, ToSol(Abs(lamports)))

\* Math.abs(lamports / 1e9) > 1.0
isSignificantAccountChange(lamports) == Greater(ToSol(Abs(lamports)), One)

\* isSignificantTransaction with a catch block that returns true.
isSignificantTransaction_FailOpen(tx) ==
    IF tx = Thrown THEN TRUE
    ELSE IF tx = Null THEN FALSE
    ELSE IF ~tx.hasTransaction THEN TRUE
    ELSE IF ~(\E i \in DOMAIN tx.instructions :
                 tx.instructions[i] = TOKEN_PROGRAM_ID) THEN FALSE
    ELSE Greater(calculateTransactionValue(tx), One)         \* value > 1.0

\* tx is what connection.getParsedTransaction(event.signature) does.
isSignificantTransaction(tx) ==
    IF tx = Thrown THEN FALSE                      \* catch
    ELSE IF tx = Null THEN FALSE                   \* if (!tx) return false
    ELSE IF ~tx.hasTransaction THEN FALSE          \* TypeError -> catch
    ELSE IF ~(\E i \in DOMAIN tx.instructions :
                 tx.instructions[i] = TOKEN_PROGRAM_ID) THEN FALSE
    ELSE Greater(calculateTransactionValue(tx), One)         \* value > 1.0

\* The verdict of the two classifiers on every input the chain side can
\* produce, worked out once.
AccountChangeVerdicts ==
    {<<lamports, isSignificantAccountChange(lamports)>> :
        lamports \in NotifiedLamports}
TransactionVerdicts ==
    {<<tx, isSignificantTransaction(tx)>> : tx \in FetchOutcomes}

\* decisions.wallets is the Set object Listen.wallets referred to when
\* blockchain was constructed: d.wallets are that object's members, d.aliased
\* says whether Listen.wallets still refers to it.  Held is what decisions
\* holds once Listen has changed its own set to ws.
Held(d, ws) == IF d.aliased THEN [d EXCEPT !.wallets = ws] ELSE d

\* -------------------------------------------------------------------- Init
Init ==
    /\ now = ClockStep
    /\ wallets = {}
    /\ decisions = [wallets |-> wallets, aliased |-> TRUE]
    /\ monitoredWallets = <<>>
    /\ subscriptions = EmptyMap
    /\ lastActivity = EmptyMap
    /\ handles = {}
    /\ nextId = 0
    /\ tasks = <<>>
    /\ nextNote = 0
    /\ activity = <<>>
    /\ significant = <<>>
    /\ ret = NoRet

\* ----------------------------------------------------------------- actions
\* Date.now() moves on.
Tick ==
    /\ now < ClockStep * (1 + MaxTicks)
    /\ now' = now + ClockStep
    /\ ret' = NoRet
    /\ UNCHANGED <<wallets, decisions, monitorVars, chainVars, tasks, busVars>>

\* TransactionMonitor.startMonitoring(w), called on the monitor itself (as
\* Listen.__init does for every wallet of Listen.wallets).
StartMonitoring(w, open) ==
    /\ nextId + 2 <= MaxHandleId
    /\ startMonitoring(w, open)
    /\ ret' = NoRet
    /\ UNCHANGED <<now, wallets, decisions, tasks, busVars>>

\* A suspended cleanup notes the addresses it found stale for which an addWallet
\* call, made with an address that satisfies the wallet rule, ran meanwhile; a
\* suspended removeWallet notes such a call for its own address.
NoteAdded(ts, w) ==
    SubSeq([n \in DOMAIN ts |->
               IF \/ ts[n].kind = "cleanup" /\ w \in ts[n].stale
                  \/ ts[n].kind = "removeWallet" /\ ts[n].wallet = w
               THEN [ts[n] EXCEPT !.added = @ \cup {w}] ELSE ts[n]],
           1, Len(ts))

\* Listen.addWallet(w).  acct is what the chain answers to getAccountInfo and
\* getBalance, open what it does with the subscription calls when they are
\* made; the code after the validity check is synchronous up to the return.
AddWallet(w, acct) ==
    LET info == [exists |-> acct.exists, owner |-> acct.owner]
        isValid == isValidWallet(w, info, acct.balance)
        byRule == WalletRule(w, info, acct.balance)
        returned(open, result) ==
            [NoRet EXCEPT !.op = "addWallet",
                          !.wallet = IF byRule THEN w ELSE "",
                          !.valid = byRule,
                          !.repeat = /\ byRule
                                     /\ ret.op = "addWallet"
                                     /\ ret.wallet = w,
                          !.open = open, !.result = result]
    IN
    /\ IF ~isValid THEN
           /\ ret' = returned("", FALSE)
           /\ UNCHANGED <<wallets, decisions, monitorVars, chainVars>>
       ELSE
           \E open \in OpenOutcomes :
               /\ nextId + 2 <= MaxHandleId
               /\ wallets' = wallets \cup {w}
               /\ decisions' = Held(decisions, wallets')
               /\ startMonitoring(w, open)
               /\ ret' = returned(open, TRUE)
    /\ tasks' = IF byRule THEN NoteAdded(tasks, w) ELSE tasks
    /\ UNCHANGED <<now, busVars>>

\* monitoredWallets.delete(w) moves a suspended cleanup's iterator back by one
\* when the deleted entry (at index k) lies at or before it.
AdjustPos(ts, k) ==
    SubSeq([n \in DOMAIN ts |->
               IF ts[n].kind = "cleanup" /\ k > 0 /\ ts[n].pos >= k
               THEN [ts[n] EXCEPT !.pos = @ - 1] ELSE ts[n]],
           1, Len(ts))

\* A suspended cleanup notes the addresses whose entries another call's
\* stopMonitoring (that of task i) deleted meanwhile; a suspended
\* handleNewTransaction notes the deletion of its own address.
NoteDeleted(ts, i, w) ==
    SubSeq([n \in DOMAIN ts |->
               IF \/ ts[n].kind = "cleanup" /\ n # i
                  \/ ts[n].kind = "transaction" /\ ts[n].wallet = w
               THEN [ts[n] EXCEPT !.others = @ \cup {w}] ELSE ts[n]],
           1, Len(ts))

\* A loop that calls stopMonitoring for every entry, active or not.
RECURSIVE NextStale_All(_, _, _, _)
NextStale_All(mw, la, subs, pos) ==
    IF pos >= Len(mw) THEN 0
    ELSE IF mw[pos + 1] \in DOMAIN subs
         THEN pos + 1
         ELSE NextStale_All(mw, la, subs, pos + 1)

\* The next entry after pos that cleanup's loop suspends on: an inactive wallet
\* with a subscriptions entry.  0 when the loop runs to its end.
RECURSIVE NextStale(_, _, _, _)
NextStale(mw, la, subs, pos) ==
    IF pos >= Len(mw) THEN 0
    ELSE IF ~IsActiveAt(la, now, mw[pos + 1]) /\ mw[pos + 1] \in DOMAIN subs
         THEN pos + 1
         ELSE NextStale(mw, la, subs, pos + 1)

\* TransactionMonitor.cleanup's loop from iterator position ts[i].pos, then
\* the rest of Listen.cleanup when the loop ends.
CleanupAdvance(ts, i, mw, la, subs) ==
    LET j == NextStale(mw, la, subs, ts[i].pos) IN
    IF j = 0 THEN
        /\ tasks' = Canon(RemoveAt(ts, i))
        /\ wallets' = Range(ActiveOf(mw, la, now))
        \* this.wallets = new Set(activeWallets): decisions keeps the old one
        /\ decisions' = [decisions EXCEPT !.aliased = FALSE]
        /\ ret' = [NoRet EXCEPT !.op = "cleanup", !.stale = ts[i].stale,
                                !.added = ts[i].added,
                                !.before = ts[i].before,
                                !.started = ts[i].started,
                                !.tried = ts[i].tried,
                                !.unreleased = ts[i].unreleased,
                                !.others = ts[i].others]
    ELSE
        /\ tasks' = Canon([ts EXCEPT ![i] =
               [@ EXCEPT !.pos = j, !.wallet = mw[j], !.pc = "relAcct",
                         !.tried = ts[i].tried \cup {mw[j]},
                         !.account = subs[mw[j]].account,
                         !.signature = subs[mw[j]].signature]])
        /\ wallets' = wallets
        /\ decisions' = decisions
        /\ ret' = NoRet

\* The periodic timer fires: Listen.cleanup().  The run keeps, for the
\* record, Listen.wallets and the time at its start, the addresses it called
\* stopMonitoring for and those whose release failed.
CleanupBegin ==
    /\ CleanupAdvance(
           Append(tasks, [NewTask EXCEPT
               !.kind = "cleanup",
               !.before = wallets,
               !.started = now,
               !.stale = {w \in Range(monitoredWallets) :
                             /\ w \in DOMAIN lastActivity
                             /\ now - lastActivity[w] > InactiveThreshold}]),
           Len(tasks) + 1, monitoredWallets, lastActivity, subscriptions)
    /\ UNCHANGED <<now, monitorVars, chainVars, busVars>>

\* Listen.removeWallet(w) up to stopMonitoring's first await.
RemoveWallet(w) ==
    /\ wallets' = wallets \ {w}
    /\ decisions' = Held(decisions, wallets')
    /\ IF w \notin DOMAIN subscriptions THEN
           /\ ret' = [NoRet EXCEPT !.op = "removeWallet",
                                   !.monitored = w \in Range(monitoredWallets),
                                   !.result = TRUE]
           /\ tasks' = tasks
       ELSE
           /\ tasks' = Canon(Append(tasks, [NewTask EXCEPT
                  !.kind = "removeWallet", !.wallet = w, !.pc = "relAcct",
                  !.account = subscriptions[w].account,
                  !.signature = subscriptions[w].signature,
                  !.monitored = w \in Range(monitoredWallets)]))
           /\ ret' = NoRet
    /\ UNCHANGED <<now, monitorVars, chainVars, busVars>>

\* stopMonitoring whose failed release ends the run it was called from.
StopReturns_AbortOnFailure(ts, i, mw, la, subs, failed) ==
    IF ts[i].kind = "removeWallet" \/ failed # "" THEN
        /\ tasks' = Canon(RemoveAt(ts, i))
        /\ wallets' = wallets
        /\ decisions' = decisions
        /\ ret' = IF ts[i].kind = "removeWallet"
                  THEN [NoRet EXCEPT !.op = "removeWallet",
                                     !.wallet = ts[i].wallet,
                                     !.monitored = ts[i].monitored,
                                     !.account = ts[i].account,
                                     !.signature = ts[i].signature,
                                     !.failed = failed,
                                     !.added = ts[i].added,
                                     !.result = TRUE]
                  ELSE [NoRet EXCEPT !.op = "cleanup", !.stale = ts[i].stale,
                                     !.added = ts[i].added,
                                     !.before = ts[i].before,
                                     !.started = ts[i].started,
                                     !.tried = ts[i].tried,
                                     !.others = ts[i].others,
                                     !.unreleased = ts[i].unreleased \cup {ts[i].wallet}]
    ELSE CleanupAdvance(ts, i, mw, la, subs)

\* stopMonitoring has returned inside task i (normally, or through its catch
\* when the release named by `failed` rejected).
StopReturns(ts, i, mw, la, subs, failed) ==
    IF ts[i].kind = "removeWallet" THEN
        /\ tasks' = Canon(RemoveAt(ts, i))
        /\ wallets' = wallets
        /\ decisions' = decisions
        /\ ret' = [NoRet EXCEPT !.op = "removeWallet", !.wallet = ts[i].wallet,
                                !.monitored = ts[i].monitored,
                                !.account = ts[i].account,
                                !.signature = ts[i].signature,
                                !.failed = failed,
                                !.added = ts[i].added,
                                !.result = TRUE]
    ELSE CleanupAdvance(
             IF failed = "" THEN ts
             ELSE [ts EXCEPT ![i].unreleased = @ \cup {ts[i].wallet}],
             i, mw, la, subs)

\* removeAccountChangeListener settles.
ReleaseAccountDone(i, ok) ==
    /\ i \in DOMAIN tasks
    /\ tasks[i].pc = "relAcct"
    /\ IF ok THEN
           /\ handles' = {h \in handles :
                  ~(h.kind = "account" /\ h.id = tasks[i].account)}
           /\ tasks' = Canon([tasks EXCEPT ![i].pc = "relLogs"])
           /\ wallets' = wallets
           /\ decisions' = decisions
           /\ ret' = NoRet
       ELSE
           /\ handles' = handles
           /\ StopReturns(tasks, i, monitoredWallets, lastActivity,
                          subscriptions, "account")
    /\ UNCHANGED <<now, monitorVars, nextId, busVars>>

\* removeOnLogsListener settles; on success the bookkeeping is deleted.
ReleaseLogsDone(i, ok) ==
    /\ i \in DOMAIN tasks
    /\ tasks[i].pc = "relLogs"
    /\ IF ok THEN
           LET w == tasks[i].wallet IN
           /\ handles' = {h \in handles :
                  ~(h.kind = "logs" /\ h.id = tasks[i].signature)}
           /\ subscriptions' = MapDelete(subscriptions, w)
           /\ monitoredWallets' = SetDelete(monitoredWallets, w)
           /\ lastActivity' = MapDelete(lastActivity, w)
           /\ StopReturns(
                  NoteDeleted(AdjustPos(tasks, IndexOf(monitoredWallets, w)), i, w),
                  i, monitoredWallets', lastActivity', subscriptions', "")
       ELSE
           /\ UNCHANGED <<handles, monitorVars>>
           /\ StopReturns(tasks, i, monitoredWallets, lastActivity,
                          subscriptions, "signature")
    /\ UNCHANGED <<now, nextId, busVars>>

\* The chain client calls the account-change callback of a live subscription:
\* handleAccountChange, then Listen.handleWalletActivity.
AccountNotify(w, lamports) ==
    /\ \E h \in handles : h.kind = "account" /\ h.wallet = w
    /\ LET event == [NoEvent EXCEPT !.note = nextNote + 1,
                                    !.type = "account_change",
                                    !.wallet = w, !.lamports = lamports]
           isSignificant == <<lamports, TRUE>> \in AccountChangeVerdicts
       IN /\ nextNote' = nextNote + 1
          /\ lastActivity' = MapSet(lastActivity, w, now)
          /\ activity' = emit(activity, NoteOf(event))
          /\ significant' = handleWalletActivity(NoteOf(event), isSignificant)
          /\ ret' = [NoRet EXCEPT !.op = "accountChange", !.note = nextNote + 1,
                                  !.lamports = lamports,
                                  !.verdict = isSignificant]
    /\ UNCHANGED <<now, wallets, decisions, monitoredWallets, subscriptions,
                   chainVars, tasks>>

\* The chain client calls the logs callback of a live subscription:
\* handleNewTransaction up to its first await.
LogsNotify(w) ==
    /\ \E h \in handles : h.kind = "logs" /\ h.wallet = w
    /\ nextNote' = nextNote + 1
    /\ tasks' = Canon(Append(tasks, [NewTask EXCEPT !.kind = "transaction",
                                              !.wallet = w, !.pc = "signatures",
                                              !.note = nextNote + 1]))
    /\ ret' = NoRet
    /\ UNCHANGED <<now, wallets, decisions, monitorVars, chainVars, activity, significant>>

\* getSignaturesForAddress settles: "throw", "empty" (no signature) or "ok"
\* (the most recent signature of the address).
SignaturesDone(i, out) ==
    /\ i \in DOMAIN tasks
    /\ tasks[i].pc = "signatures"
    /\ tasks' = Canon(IF out = "ok" THEN [tasks EXCEPT ![i].pc = "parsed"]
                ELSE RemoveAt(tasks, i))
    /\ ret' = IF out = "ok" THEN NoRet
              ELSE [NoRet EXCEPT !.op = "signatures", !.note = tasks[i].note,
                                 !.failed = out]
    /\ UNCHANGED <<now, wallets, decisions, monitorVars, chainVars, busVars>>

\* handleNewTransaction goes on only when the fetch throws.
NoTransaction_OnlyThrown(tx) == tx = Thrown

\* The fetch threw (the catch ends the handler) or `!transaction` holds.
NoTransaction(tx) == tx = Thrown \/ tx = Null

\* handleNewTransaction's getParsedTransaction settles; with a transaction the
\* event is built and emitted, and Listen.handleWalletActivity runs up to the
\* fetch of isSignificantTransaction.  ret keeps what the fetch gave: the
\* notification when it gave no transaction, the event's type tag otherwise.
ParsedDone(i, tx) ==
    /\ i \in DOMAIN tasks
    /\ tasks[i].pc = "parsed"
    /\ ret' = IF tx = Thrown \/ tx = Null
              THEN [NoRet EXCEPT !.op = "parsed", !.note = tasks[i].note,
                                 !.failed = IF tx = Null THEN "null" ELSE "throw"]
              ELSE [NoRet EXCEPT !.op = "parsed",
                                 !.others = tasks[i].others,
                                 !.transactionType = getTransactionType(tx)]
    /\ IF ~NoTransaction(tx) THEN
           LET event == [NoEvent EXCEPT
                   !.note = tasks[i].note, !.type = "transaction",
                   !.wallet = tasks[i].wallet,
                   !.transactionType = getTransactionType(tx)]
           IN /\ lastActivity' = MapSet(lastActivity, tasks[i].wallet, now)
              /\ activity' = emit(activity, NoteOf(event))
              /\ tasks' = Canon([tasks EXCEPT ![i].pc = "classify"])
       ELSE
           /\ tasks' = Canon(RemoveAt(tasks, i))
           /\ UNCHANGED <<lastActivity, activity>>
    /\ UNCHANGED <<now, wallets, decisions, monitoredWallets, subscriptions, chainVars,
                   nextNote, significant>>

\* isSignificantTransaction's getParsedTransaction settles; the verdict decides
\* the 'significantActivity' emission.
ClassifyDone(i, tx) ==
    /\ i \in DOMAIN tasks
    /\ tasks[i].pc = "classify"
    /\ LET isSignificant == <<tx, TRUE>> \in TransactionVerdicts IN
       /\ significant' = handleWalletActivity(tasks[i].note, isSignificant)
       /\ ret' = [NoRet EXCEPT !.op = "transaction", !.note = tasks[i].note,
                               !.fetch = tx, !.verdict = isSignificant]
    /\ tasks' = Canon(RemoveAt(tasks, i))
    /\ UNCHANGED <<now, wallets, decisions, monitorVars, chainVars, nextNote, activity>>

Next ==
    \/ Tick
    \/ \E w \in Addresses, open \in OpenOutcomes : StartMonitoring(w, open)
    \/ \E w \in Addresses, acct \in ChainAccounts : AddWallet(w, acct)
    \/ \E w \in Addresses :
          /\ w \in DOMAIN subscriptions => Len(tasks) < MaxTasks
          /\ RemoveWallet(w)
    \/ Len(tasks) < MaxTasks /\ CleanupBegin
    \/ \E i \in 1..MaxTasks, ok \in BOOLEAN : ReleaseAccountDone(i, ok)
    \/ \E i \in 1..MaxTasks, ok \in BOOLEAN : ReleaseLogsDone(i, ok)
    \/ \E w \in Wallets, lamports \in NotifiedLamports :
          nextNote < MaxNotes /\ AccountNotify(w, lamports)
    \/ \E w \in Wallets :
          nextNote < MaxNotes /\ Len(tasks) < MaxTasks /\ LogsNotify(w)
    \/ \E i \in 1..MaxTasks, out \in {"throw", "empty", "ok"} :
          SignaturesDone(i, out)
    \/ \E i \in 1..MaxTasks, tx \in FetchOutcomes : ParsedDone(i, tx)
    \/ \E i \in 1..MaxTasks, tx \in FetchOutcomes : ClassifyDone(i, tx)

Spec == Init /\ [][Next]_vars

\* The notifications of one monitored address, two of them in flight: the
\* address is subscribed and the chain client calls its two callbacks.
BusWallet == "A"

NextBus ==
    \/ \E open \in OpenOutcomes : StartMonitoring(BusWallet, open)
    \/ \E lamports \in NotifiedLamports :
          nextNote < MaxBusNotes /\ AccountNotify(BusWallet, lamports)
    \/ nextNote < MaxBusNotes /\ Len(tasks) < MaxBusTasks /\ LogsNotify(BusWallet)
    \/ \E i \in 1..MaxBusTasks, out \in {"throw", "empty", "ok"} :
          SignaturesDone(i, out)
    \/ \E i \in 1..MaxBusTasks, tx \in FetchOutcomes : ParsedDone(i, tx)
    \/ \E i \in 1..MaxBusTasks, tx \in FetchOutcomes : ClassifyDone(i, tx)

SpecBus == Init /\ [][NextBus]_vars

\* The registry under concurrent unsubscribing: addresses are subscribed on
\* the monitor, time passes, and removeWallet calls and Reaper runs overlap.
\* Every chain call made for OtherWallet returns and the timer keeps firing;
\* nothing is assumed of the calls made for the remaining address.
OtherWallet == "B"

ReturnsFor(w) ==
    \E i \in 1..MaxReapTasks, ok \in BOOLEAN :
        /\ i \in DOMAIN tasks
        /\ tasks[i].wallet = w
        /\ (ReleaseAccountDone(i, ok) \/ ReleaseLogsDone(i, ok))

TimerFires == Len(tasks) < MaxReapTasks /\ CleanupBegin

NextReap ==
    \/ Tick
    \/ \E w \in Wallets : StartMonitoring(w, "ok")
    \/ \E w \in Wallets :
          /\ w \in DOMAIN subscriptions => Len(tasks) < MaxReapTasks
          /\ RemoveWallet(w)
    \/ TimerFires
    \/ \E i \in 1..MaxReapTasks, ok \in BOOLEAN : ReleaseAccountDone(i, ok)
    \/ \E i \in 1..MaxReapTasks, ok \in BOOLEAN : ReleaseLogsDone(i, ok)

SpecReap ==
    /\ Init
    /\ [][NextReap]_vars
    /\ WF_vars(ReturnsFor(OtherWallet))
    /\ WF_vars(TimerFires)

\* ------------------------------------------------- Listen.__get_last_100
\* tokenAccounts.slice(0, 100)
ScanLimit == 100

\* How many token accounts getParsedProgramAccounts returns.
HolderCounts == {0, 100, 150}

\* account.account.data of a token account the chain could not parse has no
\* `parsed` member.
Unparsed == "unparsed"

Min(a, b) == IF a < b THEN a ELSE b

\* Listen.__get_last_100(tokenAddress) up to its first await.
GetLast100Begin ==
    /\ tasks' = Canon(Append(tasks, [NewTask EXCEPT !.kind = "scan",
                                                   !.pc = "accounts"]))
    /\ ret' = NoRet
    /\ UNCHANGED <<now, wallets, decisions, monitorVars, chainVars, busVars>>

\* What __get_last_100 returns from task t: the holders, or [] from its catch.
\* total, considered and owners (the considered owners that satisfy the wallet
\* rule) are kept for the record.
ScanReturns(t, failed) ==
    [NoRet EXCEPT !.op = "scan", !.failed = failed,
                  !.total = t.total, !.considered = t.pos,
                  !.owners = t.owners,
                  !.holders = IF failed = "" THEN t.holders ELSE <<>>]

\* getParsedProgramAccounts settles: it throws (n < 0) or returns n accounts.
AccountsDone(i, n) ==
    /\ i \in DOMAIN tasks
    /\ tasks[i].pc = "accounts"
    /\ IF n < 0 THEN
           /\ tasks' = Canon(RemoveAt(tasks, i))
           /\ ret' = ScanReturns(tasks[i], "throw")
       ELSE IF Min(n, ScanLimit) = 0 THEN
           /\ tasks' = Canon(RemoveAt(tasks, i))
           /\ ret' = ScanReturns([tasks[i] EXCEPT !.total = n], "")
       ELSE
           /\ tasks' = Canon([tasks EXCEPT ![i].total = n, ![i].pc = "validate"])
           /\ ret' = NoRet
    /\ UNCHANGED <<now, wallets, decisions, monitorVars, chainVars, busVars>>

\* One turn of the loop: the account at slice index pos + 1 has `owner` as its
\* parsed owner (or is Unparsed); acct is what the chain answers to
\* isValidWallet(owner), acct2 and open what it answers inside addWallet.
ScanStep(i, owner, acct, acct2, open) ==
    LET t == tasks[i]
        info == [exists |-> acct.exists, owner |-> acct.owner]
        info2 == [exists |-> acct2.exists, owner |-> acct2.owner]
        isValid == isValidWallet(owner, info, acct.balance)
        byRule == WalletRule(owner, info, acct.balance)
        after == [t EXCEPT !.pos = t.pos + 1,
                           !.owners = IF byRule THEN t.owners \cup {owner}
                                      ELSE t.owners,
                           !.holders = IF isValid THEN Append(t.holders, owner)
                                       ELSE t.holders]
    IN
    /\ i \in DOMAIN tasks
    /\ t.pc = "validate"
    /\ IF owner = Unparsed THEN
           /\ tasks' = Canon(RemoveAt(tasks, i))
           /\ ret' = ScanReturns(t, "unparsed")
           /\ UNCHANGED <<wallets, decisions, monitorVars, chainVars>>
       ELSE
           /\ IF isValid /\ isValidWallet(owner, info2, acct2.balance) THEN
                  /\ nextId + 2 <= MaxHandleId
                  /\ wallets' = wallets \cup {owner}
                  /\ decisions' = Held(decisions, wallets')
                  /\ startMonitoring(owner, open)
              ELSE UNCHANGED <<wallets, decisions, monitorVars, chainVars>>
           /\ IF after.pos = Min(t.total, ScanLimit) THEN
                  /\ tasks' = Canon(RemoveAt(tasks, i))
                  /\ ret' = ScanReturns(after, "")
              ELSE
                  /\ tasks' = Canon([tasks EXCEPT ![i] = after])
                  /\ ret' = NoRet
    /\ UNCHANGED <<now, busVars>>

NextScan ==
    \/ Len(tasks) < MaxScanTasks /\ GetLast100Begin
    \/ \E i \in 1..MaxScanTasks, n \in {-1} \cup HolderCounts : AccountsDone(i, n)
    \/ \E i \in 1..MaxScanTasks, owner \in Addresses \cup {Unparsed},
          acct \in ChainAccounts, acct2 \in ChainAccounts, open \in OpenOutcomes :
          ScanStep(i, owner, acct, acct2, open)

SpecScan == Init /\ [][NextScan]_vars

\* A log notification of one address racing with the unsubscribe of that
\* address: the handler's fetches settle while removeWallet or a Reaper run
\* releases the handles.
NextRace ==
    \/ Tick
    \/ StartMonitoring(BusWallet, "ok")
    \/ nextNote < MaxRaceNotes /\ Len(tasks) < MaxRaceTasks /\ LogsNotify(BusWallet)
    \/ \E i \in 1..MaxRaceTasks, out \in {"throw", "empty", "ok"} :
          SignaturesDone(i, out)
    \/ \E i \in 1..MaxRaceTasks, tx \in FetchOutcomes : ParsedDone(i, tx)
    \/ \E i \in 1..MaxRaceTasks, tx \in FetchOutcomes : ClassifyDone(i, tx)
    \/ /\ BusWallet \in DOMAIN subscriptions => Len(tasks) < MaxRaceTasks
       /\ RemoveWallet(BusWallet)
    \/ Len(tasks) < MaxRaceTasks /\ CleanupBegin
    \/ \E i \in 1..MaxRaceTasks, ok \in BOOLEAN : ReleaseAccountDone(i, ok)
    \/ \E i \in 1..MaxRaceTasks, ok \in BOOLEAN : ReleaseLogsDone(i, ok)

SpecRace == Init /\ [][NextRace]_vars

\* ---------------------------------------------------------------- claims
Monitored(w) == w \in Range(getMonitoredWallets)

LiveHandles(w, kind) == {h \in handles : h.wallet = w /\ h.kind = kind}

HandleLive(id) == \E h \in handles : h.id = id

ExactlyOneSubscription(w) ==
    /\ w \in DOMAIN subscriptions
    /\ Cardinality(LiveHandles(w, "account")) = 1
    /\ Cardinality(LiveHandles(w, "logs")) = 1

\* C1: once addWallet(A) has returned true, A is in listMonitored() and exactly
\* one Subscription exists for A.  No addWallet call returns true
\* (C1_NeverReturnsTrue), so this holds of no call that happens.
C1_AddedIsMonitored ==
    (ret.op = "addWallet" /\ ret.result) =>
        /\ Monitored(ret.wallet)
        /\ ExactlyOneSubscription(ret.wallet)

C1_NeverReturnsTrue == ret.op = "addWallet" => ~ret.result

\* C2: once removeWallet(A) has returned true for a monitored A, A is not in
\* listMonitored() and neither handle the registry held for A is live, also
\* when a release call failed.
C2_RemovedIsReleased ==
    (ret.op = "removeWallet" /\ ret.monitored /\ ret.result) =>
        /\ ~Monitored(ret.wallet)
        /\ ~HandleLive(ret.account)
        /\ ~HandleLive(ret.signature)

\* C3: after addWallet(A) has been called twice in a row for an address that
\* satisfies the wallet rule, exactly one Subscription exists for A.
C3_SecondAddKeepsOne ==
    (ret.op = "addWallet" /\ ret.repeat) => ExactlyOneSubscription(ret.wallet)

\* C4: every address that was stale (now - LastActivity > 24h) when a Reaper
\* run started is not in listMonitored() when the run has finished.
C4_ReaperEvictsStale ==
    ret.op = "cleanup" => \A w \in ret.stale : ~Monitored(w)

\* C5: when the fetch made while classifying a transaction event throws,
\* returns null, or returns something that cannot be parsed, the verdict is
\* false and no significantActivity event is emitted for that event.
FetchFailed(tx) == tx = Thrown \/ tx = Null \/ ~tx.hasTransaction

C5_FailClosed ==
    (ret.op = "transaction" /\ FetchFailed(ret.fetch)) =>
        /\ ~ret.verdict
        /\ ret.note \notin Range(significant)

C5_Witness ==
    /\ ret.op = "transaction"
    /\ ret.fetch = Thrown
    /\ ret.note \in Range(activity)
    /\ ret.note \notin Range(significant)

\* C6: an addWallet call whose address fails the wallet rule (malformed, no
\* account, not owned by the system program, balance not above the minimum)
\* returns false, opens no chain subscription and changes neither WatchSet
\* nor the registry.
C6_RejectedAddChangesNothing ==
    [][(ret'.op = "addWallet" /\ ~ret'.valid) =>
           /\ ret'.result = FALSE
           /\ UNCHANGED <<wallets, monitoredWallets, subscriptions,
                          lastActivity, handles, nextId>>]_vars

C6_Witness ==
    /\ ret.op = "addWallet"
    /\ ~ret.valid
    /\ ~ret.result
    /\ handles # {}

\* C7: an addWallet call for an address that satisfies the wallet rule, in which
\* opening a chain subscription fails, returns false and leaves WatchSet as it
\* was.  No addWallet call attempts to open a subscription (C7_NeverOpens), so
\* this holds of no call that happens.
C7_FailedOpenLeavesWatchSet ==
    [][(/\ ret'.op = "addWallet"
        /\ ret'.valid
        /\ ret'.open \in {"acctThrows", "logsThrows"}) =>
           (ret'.result = FALSE /\ wallets' = wallets)]_vars

C7_NeverOpens == ret.op = "addWallet" => ret.open = ""

\* C8: addWallet returns true for an address that satisfies the wallet rule
\* and whose chain subscriptions do not fail to open.
C8_ValidAddSucceeds ==
    (/\ ret.op = "addWallet"
     /\ ret.valid
     /\ ret.open \notin {"acctThrows", "logsThrows"}) => ret.result = TRUE

\* C9: removeWallet(A) returns false when A was not being monitored.
C9_RemoveUnmonitoredFails ==
    (ret.op = "removeWallet" /\ ~ret.monitored) => ret.result = FALSE

\* C10: when releasing one of the two handles of A fails, the other handle is
\* still released and the subscriptions entry, the monitored-set membership
\* and the lastActivity entry of A are still removed.
C10_BestEffortRelease ==
    (ret.op = "removeWallet" /\ ret.failed # "") =>
        /\ ret.failed = "account" => ~HandleLive(ret.signature)
        /\ ret.failed = "signature" => ~HandleLive(ret.account)
        /\ ret.wallet \notin DOMAIN subscriptions
        /\ ~Monitored(ret.wallet)
        /\ ret.wallet \notin DOMAIN lastActivity

\* C11: a subscribe that fails leaves no partial state: every subscription that
\* is live in the chain client is one the registry holds an entry for, also
\* after onLogs has thrown behind a successful onAccountChange.
C11_NoPartialState ==
    \A h \in handles :
        /\ h.wallet \in DOMAIN subscriptions
        /\ h.id \in {subscriptions[h.wallet].account,
                     subscriptions[h.wallet].signature}

\* C12: in every reachable state each address has at most one live
\* account-change handle and at most one live log handle.
C12_AtMostOneSubscription ==
    \A w \in Wallets :
        /\ Cardinality(LiveHandles(w, "account")) <= 1
        /\ Cardinality(LiveHandles(w, "logs")) <= 1

\* C13: in every reachable state every address of monitoredWallets and every
\* key of subscriptions has a lastActivity entry.
C13_RegistryHasLastActivity ==
    \A w \in Range(monitoredWallets) \cup DOMAIN subscriptions :
        w \in DOMAIN lastActivity

\* A removeWallet whose release failed has returned: the address is still in
\* the registry, with its lastActivity entry.
C13_Witness ==
    /\ ret.op = "removeWallet"
    /\ ret.failed # ""
    /\ Monitored(ret.wallet)
    /\ ret.wallet \in DOMAIN subscriptions
    /\ ret.wallet \in DOMAIN lastActivity

\* C14: when a Reaper run that found A stale has finished and an addWallet(A)
\* call ran while it was under way, A is in WatchSet exactly when the registry
\* holds a subscription for A.
C14_WatchSetMatchesRegistry ==
    ret.op = "cleanup" =>
        \A w \in ret.added : w \in wallets <=> w \in DOMAIN subscriptions

\* C15: when a Reaper run that found A stale has finished and an addWallet(A)
\* call ran while it was under way, A is monitored and its LastActivity is
\* fresh.
C15_AddWins ==
    ret.op = "cleanup" =>
        \A w \in ret.added : Monitored(w) /\ isWalletActive(w)

NoDuplicates(log) == \A i, j \in DOMAIN log : i # j => log[i] # log[j]

\* C16: one raw notification produces at most one walletActivity event and at
\* most one significantActivity emission.
C16_AtMostOnce == NoDuplicates(activity) /\ NoDuplicates(significant)

\* Two notifications, one of them a log notification, have each produced both
\* events.
C16_Witness ==
    /\ ret.op = "transaction"
    /\ Len(activity) = 2
    /\ Len(significant) = 2

Ascending(log) == \A i, j \in DOMAIN log : i < j => log[i] < log[j]

\* C17: the walletActivity events and the significantActivity events of an
\* address are emitted in the order in which its raw notifications arrived.
C17_OrderPreserved == Ascending(activity) /\ Ascending(significant)

\* C18: a significantActivity emission carries a walletActivity event whose
\* verdict was true, and an event whose verdict is false is not emitted.
C18_OnlySignificantEmitted ==
    /\ Range(significant) \subseteq Range(activity)
    /\ ret.op \in {"transaction", "accountChange"} =>
           (ret.note \in Range(significant) <=> ret.verdict)

\* An account change judged not significant after an earlier notification
\* judged significant: only the earlier one was passed on.
C18_Witness ==
    /\ ret.op = "accountChange"
    /\ ~ret.verdict
    /\ Len(activity) = 2
    /\ Len(significant) = 1

\* C19: an account-change event is significant exactly when its lamports are
\* worth more than 1.0 SOL (10^9 lamports): 0.5 SOL and exactly 1.0 SOL are not
\* significant, 2.0 SOL is.
C19_AccountChangeThreshold ==
    ret.op = "accountChange" =>
        /\ ret.verdict <=> Abs(ret.lamports) > LAMPORTS_PER_SOL
        /\ ret.lamports \in {500000000, 1000000000} => ~ret.verdict
        /\ ret.lamports = 2000000000 => ret.verdict

C19_Witness ==
    /\ ret.op = "accountChange"
    /\ ret.lamports = 1000000000
    /\ ~ret.verdict
    /\ ret.note \in Range(activity)
    /\ ret.note \notin Range(significant)

HasTokenInstruction(tx) ==
    \E i \in DOMAIN tx.instructions : tx.instructions[i] = TOKEN_PROGRAM_ID

\* The sum over all accounts of abs(postBalance - preBalance), in lamports.
RECURSIVE BalanceDelta(_, _)
BalanceDelta(tx, i) ==
    IF i > Len(tx.preBalances) THEN 0
    ELSE Abs(tx.postBalances[i] - tx.preBalances[i]) + BalanceDelta(tx, i + 1)

\* C20: a transaction event is significant exactly when an instruction of the
\* parsed transaction has the token-program identifier and the balance changes
\* of all its accounts add up to more than 1.0 SOL (10^9 lamports).
C20_TransactionRule ==
    (ret.op = "transaction" /\ ret.fetch \in ParsedTransactions) =>
        (ret.verdict <=> /\ HasTokenInstruction(ret.fetch)
                         /\ BalanceDelta(ret.fetch, 1) > LAMPORTS_PER_SOL)

\* C28: isActive(address, ttl = 24h) is true exactly when a LastActivity entry
\* exists for the address and now - LastActivity <= ttl; an address last active
\* exactly 24h ago is active.
C28_ActiveWithinTtl ==
    \A w \in Wallets :
        isWalletActive(w) <=>
            /\ w \in DOMAIN lastActivity
            /\ now - lastActivity[w] <= InactiveThreshold

\* C29: LastActivity never holds an entry for an address that is not
\* monitored: a notification handled for such an address creates none.
C29_TouchOnlyMonitored ==
    \A w \in DOMAIN lastActivity : Monitored(w)

\* C21: a log notification whose signature fetch yields no signature, or whose
\* transaction fetch returns null, is dropped: no event is emitted for it and
\* no suspended handler is left to try it again.
C21_DroppedSilently ==
    (ret.op \in {"signatures", "parsed"} /\ ret.failed \in {"empty", "null"}) =>
        /\ ret.note \notin Range(activity)
        /\ ret.note \notin Range(significant)
        /\ \A i \in DOMAIN tasks : tasks[i].note # ret.note

\* A null transaction dropped after another notification's event was emitted.
C21_Witness ==
    /\ ret.op = "parsed"
    /\ ret.failed = "null"
    /\ ret.note > 0
    /\ Len(activity) >= 1

\* C30: every transaction event carries a type tag of the fixed table
\* {token_transaction, system_transaction, other}.
C30_TypeFromTable ==
    (ret.op = "parsed" /\ ret.failed = "") =>
        ret.transactionType \in {"token_transaction", "system_transaction", "other"}

\* The addresses that listMonitored() holds and that were active within the
\* last 24h.
ActiveWithinTtl ==
    {w \in Range(getMonitoredWallets) :
        w \in DOMAIN lastActivity /\ now - lastActivity[w] <= InactiveThreshold}

\* C25: when a Reaper run (Listen.cleanup) has ended, WatchSet equals the set
\* of addresses still monitored and active within 24h, and it is a subset of
\* WatchSet as it was when the run began.
C25_WatchSetShrunk ==
    ret.op = "cleanup" =>
        /\ wallets = ActiveWithinTtl
        /\ wallets \subseteq ret.before

\* C24: when a Reaper run has ended, every address that was stale at its start
\* had its unsubscribe attempted in that run, also when the unsubscribe of
\* another address failed, unless another call unsubscribed it or a
\* notification or a new subscription renewed its LastActivity meanwhile; an
\* address whose unsubscribe failed is still in the registry unless another
\* call unsubscribed it, so the next run, to which the same holds, attempts it
\* again.
C24_SweepSurvivesFailure ==
    ret.op = "cleanup" =>
        /\ \A w \in ret.stale :
               \/ w \in ret.tried
               \/ w \in ret.others
               \/ w \in DOMAIN lastActivity /\ lastActivity[w] >= ret.started
        /\ \A w \in ret.unreleased \ ret.others :
               Monitored(w) /\ w \in DOMAIN subscriptions

\* A run in which the unsubscribe of one stale address failed and another
\* stale address was evicted after it.
C24_Witness ==
    /\ ret.op = "cleanup"
    /\ ret.stale = {"A", "B"}
    /\ \E w \in ret.stale :
           /\ ret.unreleased = {w}
           /\ Monitored(w)
           /\ IndexOf(monitoredWallets, w) = 1
           /\ \A v \in ret.stale \ {w} : v \in ret.tried /\ ~Monitored(v)

\* A Reaper run that found w stale is suspended in the unsubscribe of another
\* address and has not come to w, whose LastActivity is as the run found it.
AwaitsReaping(w) ==
    \E i \in DOMAIN tasks :
        /\ tasks[i].kind = "cleanup"
        /\ tasks[i].wallet # w
        /\ w \in tasks[i].stale \ tasks[i].tried
        /\ w \in DOMAIN lastActivity
        /\ lastActivity[w] < tasks[i].started

\* C26: a chain call made for one address that never returns stalls only that
\* address: when every chain call made for another address B returns, a
\* Reaper run that has a stale B to reap eventually comes to B.
C26_HangStallsOnlyItsAddress ==
    AwaitsReaping(OtherWallet) ~> ~AwaitsReaping(OtherWallet)

\* C27: at no point are two unsubscribes (removeWallet's or the Reaper's) of
\* the same address in progress at the same time.
C27_OneMutationPerAddress ==
    \A i, j \in DOMAIN tasks :
        (/\ i # j
         /\ tasks[i].kind \in {"removeWallet", "cleanup"}
         /\ tasks[j].kind \in {"removeWallet", "cleanup"})
        => tasks[i].wallet # tasks[j].wallet

\* C22: a token-holder scan that fetched more than 100 holder accounts
\* considers exactly the first 100; when it returns, the considered owners that
\* satisfy the wallet rule are in listMonitored() and no other owner is.
C22_FirstHundredValidMonitored ==
    (ret.op = "scan" /\ ret.failed = "") =>
        /\ ret.considered = Min(ret.total, ScanLimit)
        /\ Range(getMonitoredWallets) = ret.owners

\* C23: the top-holders operation returns, in the order discovered, exactly the
\* addresses that it began monitoring in this call.
C23_ReturnsWhatItMonitored ==
    ret.op = "scan" => Range(ret.holders) = Range(getMonitoredWallets)

\* No scan returns a holder or begins monitoring one, so C23 holds of empty
\* lists only.
C23_NeverReturnsHolder ==
    ret.op = "scan" => ret.holders = <<>> /\ getMonitoredWallets = <<>>

\* C31: when addWallet(A), for an address that satisfies the wallet rule, ran
\* while removeWallet(A) was awaiting a handle release, then once both have
\* returned A is in WatchSet exactly when A has a registry entry; and an
\* addWallet(A) that returns true during such a removeWallet leaves A monitored.
C31_RemoveAddAgree ==
    /\ (ret.op = "removeWallet" /\ ret.wallet \in ret.added) =>
           (ret.wallet \in wallets <=> ret.wallet \in DOMAIN subscriptions)
    /\ (/\ ret.op = "addWallet"
        /\ ret.result
        /\ \E i \in DOMAIN tasks : /\ tasks[i].kind = "removeWallet"
                                    /\ tasks[i].wallet = ret.wallet) =>
           Monitored(ret.wallet)

\* C32: a log notification whose fetches were in flight when the unsubscribe
\* of its address completed produces no walletActivity event (and with it no
\* LastActivity entry): the notification of an emitted transaction event saw
\* no unsubscribe of its address complete.
C32_NoEventAfterUnsubscribe ==
    (ret.op = "parsed" /\ ret.failed = "") => ret.others = {}

\* C33: each subscription handle is released at most once: a call of
\* removeAccountChangeListener or removeOnLogsListener that is in progress is
\* for a handle that is still open, and no other unsubscribe in progress has
\* called the same release for the same handle.
C33_ReleasedAtMostOnce ==
    \A i \in DOMAIN tasks :
        tasks[i].kind \in {"removeWallet", "cleanup"} =>
            /\ tasks[i].pc = "relAcct" =>
                   /\ HandleLive(tasks[i].account)
                   /\ \A j \in DOMAIN tasks \ {i} :
                          tasks[j].kind \in {"removeWallet", "cleanup"} =>
                              tasks[j].account # tasks[i].account
            /\ tasks[i].pc = "relLogs" =>
                   /\ HandleLive(tasks[i].signature)
                   /\ \A j \in DOMAIN tasks \ {i} :
                          (/\ tasks[j].kind \in {"removeWallet", "cleanup"}
                           /\ tasks[j].pc = "relLogs") =>
                              tasks[j].signature # tasks[i].signature

\* A Reaper run examines entries in this step: the run ends, or it suspends in
\* the unsubscribe of the next inactive entry.
ReaperExamines ==
    \/ ret'.op = "cleanup"
    \/ \E i \in DOMAIN tasks' :
           /\ tasks'[i].kind = "cleanup"
           /\ \A j \in DOMAIN tasks :
                  tasks[j].kind = "cleanup" =>
                      <<tasks[j].started, tasks[j].before, tasks[j].tried>> #
                      <<tasks'[i].started, tasks'[i].before, tasks'[i].tried>>

\* The Reaper calls stopMonitoring(w) in this step.
ReaperReleases(w) ==
    \E i \in DOMAIN tasks' :
        /\ tasks'[i].kind = "cleanup"
        /\ tasks'[i].wallet = w
        /\ tasks'[i].pc = "relAcct"
        /\ \A j \in DOMAIN tasks :
               tasks[j].kind = "cleanup" =>
                   <<tasks[j].started, tasks[j].before, tasks[j].tried>> #
                   <<tasks'[i].started, tasks'[i].before, tasks'[i].tried>>

\* C34: a Reaper run leaves active addresses untouched: in every step in which
\* a run examines entries, an address that is monitored and active when
\* examined keeps its subscription handles, its registry entry and its
\* LastActivity value, and no release is called for it.
C34_ActiveUntouched ==
    [][ReaperExamines =>
           \A w \in Wallets :
               (w \in Range(monitoredWallets') /\ IsActiveAt(lastActivity', now', w)) =>
                   /\ ~ReaperReleases(w)
                   /\ w \in Range(monitoredWallets)
                   /\ LiveHandles(w, "account")' = LiveHandles(w, "account")
                   /\ LiveHandles(w, "logs")' = LiveHandles(w, "logs")
                   /\ MapGet(subscriptions', w) = MapGet(subscriptions, w)
                   /\ MapGet(lastActivity', w) = MapGet(lastActivity, w)]_vars

\* A run that evicted the stale B has ended; A, active when the run began,
\* is monitored with its one subscription.
C34_Witness ==
    /\ ret.op = "cleanup"
    /\ ret.tried = {"B"}
    /\ ~Monitored("B")
    /\ Monitored("A")
    /\ isWalletActive("A")
    /\ lastActivity["A"] <= ret.started
    /\ ExactlyOneSubscription("A")

\* C35: the wallet set handed to the decision component stays the WatchSet:
\* in every reachable state decisions.wallets has the same members as
\* Listen.wallets.
C35_DecisionsSeeWatchSet == decisions.wallets = wallets
====
